---- MODULE Spec2Model ----
(***************************************************************************)
(* Model of the MEGA win-rate engine (modelo_winrate_mega_shrink_v2.py)    *)
(* and of the decision rules of the Streamlit front end                    *)
(* (app_mega_shrink.py).                                                   *)
(*                                                                         *)
(* Numbers.  A Python float is modelled as an exact rational <<n, d>> with *)
(* d > 0 in lowest terms; <<0, 0>> is NaN and <<0, -1>> is Python's None   *)
(* where a float is optional.  Comparisons with NaN are false, as in IEEE. *)
(*                                                                         *)
(* Strings.  A Python str is a sequence of one-character strings; the      *)
(* one-element sequence <<"None">> stands for None / a missing cell.       *)
(*                                                                         *)
(* Bind1 and Bind2 evaluate their arguments once and hand the values to    *)
(* the body, as a Python call evaluates its arguments.                     *)
(***************************************************************************)
EXTENDS Integers, Sequences, FiniteSets, TLC

VARIABLES vs_stats, with_stats, default_xlsx, pc, op, args, ret

vars == <<vs_stats, with_stats, default_xlsx, pc, op, args, ret>>

-----------------------------------------------------------------------------
(* Bounds of the model *)

\* longest string given to norm_name in SpecNorm
MaxLen == 3
\* largest odd, in hundredths, given to should_bet in SpecBet
MaxOddCents == 235
\* largest gap, in tenths of a point, given to should_bet in SpecBet
MaxGapTenths == 32
\* most rows of a sheet of an uploaded workbook
MaxRows == 2

-----------------------------------------------------------------------------
(* Call by value *)

Bind1(e, F(_)) == CHOOSE r \in {F(v) : v \in {e}} : TRUE
Bind2(e1, e2, F(_, _)) == CHOOSE r \in {F(u, v) : u \in {e1}, v \in {e2}} : TRUE

-----------------------------------------------------------------------------
(* Floats as rationals *)

NaN == <<0, 0>>
NoneNum == <<0, -1>>
Zero == <<0, 1>>
One == <<1, 1>>
Two == <<2, 1>>
Hundred == <<100, 1>>

AbsInt(n) == IF n < 0 THEN -n ELSE n

RECURSIVE GCD(_, _)
GCD(a, b) == IF b = 0 THEN a ELSE GCD(b, a % b)

\* n / d in lowest terms, d > 0
Rat(n, d) ==
    IF d = 0 THEN NaN
    ELSE Bind1(GCD(AbsInt(n), AbsInt(d)),
               LAMBDA g : IF d < 0 THEN <<(-n) \div g, (-d) \div g>>
                          ELSE <<n \div g, d \div g>>)

IsNaN(x) == x[2] = 0
IsNone(x) == x[2] < 0
IsNum(x) == x[2] > 0

Add(x, y) ==
    Bind2(x, y, LAMBDA a, b : IF IsNaN(a) \/ IsNaN(b) THEN NaN
                              ELSE Rat(a[1] * b[2] + b[1] * a[2], a[2] * b[2]))
Sub(x, y) ==
    Bind2(x, y, LAMBDA a, b : IF IsNaN(a) \/ IsNaN(b) THEN NaN
                              ELSE Rat(a[1] * b[2] - b[1] * a[2], a[2] * b[2]))
Mul(x, y) ==
    Bind2(x, y, LAMBDA a, b : IF IsNaN(a) \/ IsNaN(b) THEN NaN
                              ELSE Rat(a[1] * b[1], a[2] * b[2]))
\* x / y for y # 0 (the callers guard the division)
Div(x, y) ==
    Bind2(x, y, LAMBDA a, b : IF IsNaN(a) \/ IsNaN(b) THEN NaN
                              ELSE Rat(a[1] * b[2], a[2] * b[1]))

Lt(x, y) == \E a \in {x}, b \in {y} : IsNum(a) /\ IsNum(b) /\ a[1] * b[2] < b[1] * a[2]
Le(x, y) == \E a \in {x}, b \in {y} : IsNum(a) /\ IsNum(b) /\ a[1] * b[2] <= b[1] * a[2]
Gt(x, y) == Lt(y, x)
Ge(x, y) == Le(y, x)

\* Python's max(a, b) and min(a, b): the first argument unless the second beats it
PyMax(x, y) == Bind2(x, y, LAMBDA a, b : IF Gt(b, a) THEN b ELSE a)
PyMin(x, y) == Bind2(x, y, LAMBDA a, b : IF Lt(b, a) THEN b ELSE a)

\* abs(x)
PyAbs(x) == Bind1(x, LAMBDA a : IF IsNaN(a) THEN NaN ELSE <<AbsInt(a[1]), a[2]>>)

RECURSIVE ISqrtRec(_, _, _)
\* the r with lo <= r < hi and r*r <= n < (r+1)*(r+1)
ISqrtRec(n, lo, hi) ==
    IF hi - lo <= 1 THEN lo
    ELSE Bind1((lo + hi) \div 2,
               LAMBDA mid : IF mid * mid <= n THEN ISqrtRec(n, mid, hi)
                            ELSE ISqrtRec(n, lo, mid))

\* math.sqrt(x) for x >= 0, to two decimals; the search for the root stops
\* at 46340, the largest integer whose square is a 32-bit integer
Sqrt(x) ==
    Bind1(x, LAMBDA a :
        IF IsNaN(a) THEN NaN
        ELSE Bind1((a[1] * 10000) \div a[2],
                   LAMBDA n : Rat(ISqrtRec(n, 0, (IF n < 46340 THEN n ELSE 46340) + 1),
                                  100)))

-----------------------------------------------------------------------------
(* Strings *)

None == <<"None">>

UpperCase == <<"A","B","C","D","E","F","G","H","I","J","K","L","M",
               "N","O","P","Q","R","S","T","U","V","W","X","Y","Z">>
LowerCase == <<"a","b","c","d","e","f","g","h","i","j","k","l","m",
               "n","o","p","q","r","s","t","u","v","w","x","y","z">>

\* the characters str.strip() removes at both ends
Whitespace == {" ", "\t", "\n", "\r"}

LowerChar(c) ==
    IF \E i \in 1..Len(UpperCase) : UpperCase[i] = c
    THEN LowerCase[CHOOSE i \in 1..Len(UpperCase) : UpperCase[i] = c]
    ELSE c

\* str.lower()
Lower(str) == [i \in 1..Len(str) |-> LowerChar(str[i])] \o <<>>

\* str.lstrip(): from the first character that is no whitespace
LStrip(str) ==
    Bind1(str, LAMBDA s :
        IF \A i \in 1..Len(s) : s[i] \in Whitespace THEN <<>>
        ELSE SubSeq(s, CHOOSE i \in 1..Len(s) :
                           /\ s[i] \notin Whitespace
                           /\ \A j \in 1..(i - 1) : s[j] \in Whitespace,
                    Len(s)))

\* str.rstrip(): up to the last character that is no whitespace
RStrip(str) ==
    Bind1(str, LAMBDA s :
        IF \A i \in 1..Len(s) : s[i] \in Whitespace THEN <<>>
        ELSE SubSeq(s, 1, CHOOSE i \in 1..Len(s) :
                              /\ s[i] \notin Whitespace
                              /\ \A j \in (i + 1)..Len(s) : s[j] \in Whitespace))

\* str.strip()
Strip(s) == RStrip(LStrip(s))

\* str.replace(c, "") for a one-character c
Remove(s, c) == SelectSeq(s, LAMBDA ch : ch # c)

\* norm_name(x): None for a missing value or a blank string, else the
\* stripped, lower-cased string without spaces, apostrophes and periods
norm_name(x) ==
    Bind1(x, LAMBDA v :
        IF v = None THEN None
        ELSE Bind1(Lower(Strip(v)),
                   LAMBDA s : IF s = <<>> THEN None
                              ELSE Remove(Remove(Remove(s, " "), "'"), ".")))

\* Python's "not a" for a = norm_name(...)
Falsy(a) == a = None \/ a = <<>>

-----------------------------------------------------------------------------
(* Decision rules (app_mega_shrink.py) *)

RULE_A_ODD_MIN == Rat(200, 100)
RULE_A_PP_MIN == Rat(20, 10)
RULE_B_ODD_MIN == Rat(170, 100)
RULE_B_PP_MIN == Rat(30, 10)

\* the reasons; ">=" stands for the source's U+2265
MsgInvalid == "Odd invalida"
MsgRuleA == "Regra A: odd >= 2.00 e pp >= 2.0"
MsgRuleB == "Regra B: odd >= 1.70 e pp >= 3.0"
MsgOddLow == "Odd < 1.70"
MsgGapB == "pp < 3.0 para odd < 2.00"
MsgGapA == "pp < 2.0 (mesmo com odd >= 2.00)"
MsgOther == "Nao bate as regras"

\* a pick_side that gives ties to the second side
pick_side_strict(p_azul, p_vermelho) ==
    IF Gt(p_azul, p_vermelho) THEN "AZUL" ELSE "VERMELHO"

\* pick_side(p_azul, p_vermelho)
pick_side(p_azul, p_vermelho) ==
    IF Ge(p_azul, p_vermelho) THEN "AZUL" ELSE "VERMELHO"

\* get_odd_for_side(side, odd_azul, odd_vermelho)
get_odd_for_side(side, odd_azul, odd_vermelho) ==
    IF side = "AZUL" THEN odd_azul ELSE odd_vermelho

\* a should_bet whose Rule B wants more than 3.0 points
should_bet_strictB(odd, gap_pp) ==
    IF IsNone(odd) \/ Le(odd, One) THEN <<FALSE, MsgInvalid>>
    ELSE IF Ge(odd, RULE_A_ODD_MIN) /\ Ge(gap_pp, RULE_A_PP_MIN) THEN <<TRUE, MsgRuleA>>
    ELSE IF Ge(odd, RULE_B_ODD_MIN) /\ Gt(gap_pp, RULE_B_PP_MIN) THEN <<TRUE, MsgRuleB>>
    ELSE IF Lt(odd, RULE_B_ODD_MIN) THEN <<FALSE, MsgOddLow>>
    ELSE IF Lt(odd, RULE_A_ODD_MIN) /\ Lt(gap_pp, RULE_B_PP_MIN) THEN <<FALSE, MsgGapB>>
    ELSE IF Ge(odd, RULE_A_ODD_MIN) /\ Lt(gap_pp, RULE_A_PP_MIN) THEN <<FALSE, MsgGapA>>
    ELSE <<FALSE, MsgOther>>

\* a should_bet whose middle rejection tier takes in odd = 2.00
should_bet_tier(odd, gap_pp) ==
    IF IsNone(odd) \/ Le(odd, One) THEN <<FALSE, MsgInvalid>>
    ELSE IF Ge(odd, RULE_A_ODD_MIN) /\ Ge(gap_pp, RULE_A_PP_MIN) THEN <<TRUE, MsgRuleA>>
    ELSE IF Ge(odd, RULE_B_ODD_MIN) /\ Ge(gap_pp, RULE_B_PP_MIN) THEN <<TRUE, MsgRuleB>>
    ELSE IF Lt(odd, RULE_B_ODD_MIN) THEN <<FALSE, MsgOddLow>>
    ELSE IF Le(odd, RULE_A_ODD_MIN) /\ Lt(gap_pp, RULE_B_PP_MIN) THEN <<FALSE, MsgGapB>>
    ELSE IF Ge(odd, RULE_A_ODD_MIN) /\ Lt(gap_pp, RULE_A_PP_MIN) THEN <<FALSE, MsgGapA>>
    ELSE <<FALSE, MsgOther>>

\* should_bet(odd, gap_pp) = <<entra, motivo>>
should_bet(odd, gap_pp) ==
    IF IsNone(odd) \/ Le(odd, One) THEN <<FALSE, MsgInvalid>>
    ELSE IF Ge(odd, RULE_A_ODD_MIN) /\ Ge(gap_pp, RULE_A_PP_MIN) THEN <<TRUE, MsgRuleA>>
    ELSE IF Ge(odd, RULE_B_ODD_MIN) /\ Ge(gap_pp, RULE_B_PP_MIN) THEN <<TRUE, MsgRuleB>>
    ELSE IF Lt(odd, RULE_B_ODD_MIN) THEN <<FALSE, MsgOddLow>>
    ELSE IF Lt(odd, RULE_A_ODD_MIN) /\ Lt(gap_pp, RULE_B_PP_MIN) THEN <<FALSE, MsgGapB>>
    ELSE IF Ge(odd, RULE_A_ODD_MIN) /\ Lt(gap_pp, RULE_A_PP_MIN) THEN <<FALSE, MsgGapA>>
    ELSE <<FALSE, MsgOther>>

\* implied_prob_pct(odd)
implied_prob_pct(odd) ==
    IF IsNone(odd) \/ Le(odd, One) THEN NoneNum ELSE Div(Hundred, odd)

-----------------------------------------------------------------------------
(* The store is unloaded: both tables are None (an Optional is <<>> or <<t>>) *)

Unloaded == <<>>
Some(t) == <<t>>

-----------------------------------------------------------------------------
(* Spreadsheets.  A cell is text, a number or empty (pandas reads an empty  *)
(* cell as NaN).  A sheet is a data frame: its column headers, as           *)
(* _load_sheet leaves them (normalised), and its rows, one cell per column. *)
(* A workbook maps the names of the sheets it holds to those sheets.        *)

Txt(s) == [k |-> "txt", s |-> s, v |-> NaN]
Num(n, d) == [k |-> "num", s |-> <<>>, v |-> Rat(n, d)]
Empty == [k |-> "nan", s |-> <<>>, v |-> NaN]

Digits == <<"0", "1", "2", "3", "4", "5", "6", "7", "8", "9">>
IsDigit(c) == \E i \in 1..Len(Digits) : Digits[i] = c
DigitVal(c) == (CHOOSE i \in 1..Len(Digits) : Digits[i] = c) - 1

RECURSIVE DigitsVal(_, _)
\* the number the first n digits of s write
DigitsVal(s, n) == IF n = 0 THEN 0 ELSE 10 * DigitsVal(s, n - 1) + DigitVal(s[n])

RECURSIVE Pow10(_)
Pow10(n) == IF n = 0 THEN 1 ELSE 10 * Pow10(n - 1)

\* the value of a well-formed [-]digits[.digits]
DecimalVal(t) ==
    Bind2(IF Head(t) = "-" THEN Tail(t) ELSE t, Head(t) = "-", LAMBDA u, neg :
        Bind1(IF \E i \in 1..Len(u) : u[i] = "."
              THEN CHOOSE i \in 1..Len(u) : u[i] = "." ELSE Len(u) + 1,
              LAMBDA dot :
                Bind2(SubSeq(u, 1, dot - 1), SubSeq(u, dot + 1, Len(u)), LAMBDA ip, fp :
                    Rat((IF neg THEN -1 ELSE 1)
                           * (DigitsVal(ip, Len(ip)) * Pow10(Len(fp)) + DigitsVal(fp, Len(fp))),
                        Pow10(Len(fp))))))

\* float(str): [ok, v]; accepts [-]digits[.digits] around blanks, rejects
\* anything else ("abc", "55%", "0,5")
FloatOfStr(str) ==
    Bind1(Strip(str), LAMBDA t :
        Bind1(IF t # <<>> /\ Head(t) = "-" THEN Tail(t) ELSE t, LAMBDA u :
            IF /\ \A i \in 1..Len(u) : IsDigit(u[i]) \/ u[i] = "."
               /\ Cardinality({i \in 1..Len(u) : u[i] = "."}) <= 1
               /\ \E i \in 1..Len(u) : IsDigit(u[i])
            THEN [ok |-> TRUE, v |-> DecimalVal(t)]
            ELSE [ok |-> FALSE, v |-> NaN]))

\* float(r[col]): a number cell is itself, an empty cell is NaN, a text cell
\* is parsed and raises ValueError when it is no number
PyFloat(c) ==
    IF c.k = "txt" THEN FloatOfStr(c.s) ELSE [ok |-> TRUE, v |-> c.v]

\* norm_name(r[col]) of a text or empty cell
CellName(c) == norm_name(IF c.k = "txt" THEN c.s ELSE None)

NoCol == "<none>"

HasCol(df, c) == \E i \in 1..Len(df.columns) : df.columns[i] = c

\* the first candidate that is a column of df, else None
_pick(df, candidates) ==
    IF \E n \in 1..Len(candidates) : HasCol(df, candidates[n])
    THEN candidates[CHOOSE n \in 1..Len(candidates) :
                        /\ HasCol(df, candidates[n])
                        /\ \A m \in 1..(n - 1) : ~HasCol(df, candidates[m])]
    ELSE NoCol

\* r[col]
At(df, r, col) == r[CHOOSE i \in 1..Len(df.columns) : df.columns[i] = col]

\* a build_stats that keeps the last row of a pair instead of summing
AccumulateLast(tmp, key, wins, g) ==
    IF key \in DOMAIN tmp
    THEN [tmp EXCEPT ![key] = <<wins, g>>]
    ELSE tmp @@ (key :> <<wins, g>>)

\* tmp[(a, b)][0] += wins; tmp[(a, b)][1] += g, a new key starting at [0.0, 0.0]
Accumulate(tmp, key, wins, g) ==
    IF key \in DOMAIN tmp
    THEN [tmp EXCEPT ![key] = <<Add(@[1], wins), Add(@[2], g)>>]
    ELSE tmp @@ (key :> <<Add(Zero, wins), Add(Zero, g)>>)

EmptyTable == <<>>

\* one pass of build_stats's loop over row r, from the state acc = [err, tab]
RowStep(df, col_a, col_b, col_games, col_wr, acc, r) ==
    IF acc.err # "" THEN acc
    ELSE Bind2(CellName(At(df, r, col_a)), CellName(At(df, r, col_b)), LAMBDA a, b :
            IF Falsy(a) \/ Falsy(b) THEN acc
            ELSE Bind2(PyFloat(At(df, r, col_games)), PyFloat(At(df, r, col_wr)),
                       LAMBDA g, wr :
                         IF ~g.ok \/ ~wr.ok THEN [err |-> "ValueError", tab |-> acc.tab]
                         ELSE Bind1(Mul(wr.v, g.v), LAMBDA wins :
                                  [err |-> "", tab |-> Accumulate(acc.tab, <<a, b>>, wins, g.v)])))

RECURSIVE build_rows(_, _, _, _, _, _)
\* build_stats's loop over the first n rows: [err, tab]
build_rows(df, col_a, col_b, col_games, col_wr, n) ==
    IF n = 0 THEN [err |-> "", tab |-> EmptyTable]
    ELSE Bind1(build_rows(df, col_a, col_b, col_games, col_wr, n - 1), LAMBDA acc :
            RowStep(df, col_a, col_b, col_games, col_wr, acc, df.rows[n]))

\* build_stats(df, ...): [err, tab], err = "" when no row raised
build_stats(df, col_a, col_b, col_games, col_wr) ==
    build_rows(df, col_a, col_b, col_games, col_wr, Len(df.rows))

CandA == <<"campeao", "champion_a", "champion1", "champion_1", "champion">>
CandBVs == <<"vs", "opponent", "enemy", "champion_b", "champion2", "champion_2", "champion">>
CandBWith == <<"with", "ally", "pair", "champion_b", "champion2", "champion_2", "champion">>
CandGames == <<"games", "matches", "n", "count">>
CandWr == <<"winrate", "wr", "win_rate">>

\* the four columns init_from_excel resolves for a sheet
Resolve(df, candB) ==
    [a |-> IF HasCol(df, "campeao") /\ HasCol(df, "champion")
           THEN "campeao" ELSE _pick(df, CandA),
     b |-> IF HasCol(df, "campeao") /\ HasCol(df, "champion")
           THEN "champion" ELSE _pick(df, candB),
     g |-> _pick(df, CandGames),
     wr |-> _pick(df, CandWr)]

Unresolved(c) == c.a = NoCol \/ c.b = NoCol \/ c.g = NoCol \/ c.wr = NoCol

\* lines 136-137: the two tables are built and assigned one after the other
BuildBoth(vs, wt, cv, cw, vs0, with0) ==
    Bind1(build_stats(vs, cv.a, cv.b, cv.g, cv.wr), LAMBDA bv :
        IF bv.err # "" THEN [err |-> bv.err, vs |-> vs0, wt |-> with0]
        ELSE Bind1(build_stats(wt, cw.a, cw.b, cw.g, cw.wr), LAMBDA bw :
                IF bw.err # "" THEN [err |-> bw.err, vs |-> Some(bv.tab), wt |-> with0]
                ELSE [err |-> "", vs |-> Some(bv.tab), wt |-> Some(bw.tab)]))

\* init_from_excel(excel) from the store <<vs0, with0>>: the error raised
\* ("" for none) and the store it leaves
init_from_excel(excel, vs0, with0) ==
    IF "Winrate_vs" \notin DOMAIN excel \/ "Winrate_with" \notin DOMAIN excel
    THEN [err |-> "ValueError", vs |-> vs0, wt |-> with0]
    ELSE Bind2(Resolve(excel["Winrate_vs"], CandBVs),
               Resolve(excel["Winrate_with"], CandBWith), LAMBDA cv, cw :
            IF Unresolved(cv) \/ Unresolved(cw)
            THEN [err |-> "KeyError", vs |-> vs0, wt |-> with0]
            ELSE BuildBoth(excel["Winrate_vs"], excel["Winrate_with"], cv, cw, vs0, with0))

\* an _ensure_loaded without the test of line 142: it reads the default file
\* on every call
_ensure_loaded_eager(vs0, with0, dflt) ==
    IF dflt = <<>> THEN [err |-> "FileNotFoundError", vs |-> vs0, wt |-> with0]
    ELSE init_from_excel(dflt[1], vs0, with0)

\* default_xlsx is <<>> when the default file is absent, else <<workbook>>
_ensure_loaded(vs0, with0, dflt) ==
    IF vs0 # Unloaded /\ with0 # Unloaded THEN [err |-> "", vs |-> vs0, wt |-> with0]
    ELSE IF dflt = <<>> THEN [err |-> "FileNotFoundError", vs |-> vs0, wt |-> with0]
    ELSE init_from_excel(dflt[1], vs0, with0)

-----------------------------------------------------------------------------
(* Shrinkage, weights and the aggregates *)

MU_GLOBAL == Rat(1, 2)
K_PRIOR == Rat(30, 1)
WEIGHT_CAP == Rat(50, 1)

\* shrink_prob(wins, games) with the default mu and k
shrink_prob(wins, games) ==
    Div(Add(PyMax(wins, Zero), Mul(K_PRIOR, MU_GLOBAL)), Add(PyMax(games, Zero), K_PRIOR))

\* weight_from_games(games)
weight_from_games(games) == PyMin(Sqrt(PyMax(games, Zero)), WEIGHT_CAP)

\* [norm_name(c) for c in time]
NormTeam(time) == [i \in 1..Len(time) |-> norm_name(time[i])] \o <<>>

\* the pairs (a, b) the loops of calcular_winrate_vs visit, in order
VsPairs(A, B) ==
    [n \in 1..(Len(A) * Len(B)) |->
        <<A[((n - 1) \div Len(B)) + 1], B[((n - 1) % Len(B)) + 1]>>] \o <<>>

\* the index pairs (i, j), i < j, in the order of calcular_winrate_with's loops
IndexPairs(len) ==
    SelectSeq([n \in 1..(len * len) |-> <<((n - 1) \div len) + 1, ((n - 1) % len) + 1>>],
              LAMBDA ij : ij[1] < ij[2])

\* the pairs (champs[i], champs[j]), i < j, calcular_winrate_with visits
WithPairs(champs) ==
    Bind1(IndexPairs(Len(champs)), LAMBDA ix :
        [n \in 1..Len(ix) |-> <<champs[ix[n][1]], champs[ix[n][2]]>>] \o <<>>)

\* one pass of the accumulation: total += p * w; wtot += w
AddEntry(tw, e) ==
    Bind2(shrink_prob(e[1], e[2]), weight_from_games(e[2]), LAMBDA p, w :
        <<Add(tw[1], Mul(p, w)), Add(tw[2], w)>>)

RECURSIVE WeightedSum(_, _)
\* <<total, wtot>> after the first n entries of es (each <<wins, games>>)
WeightedSum(es, n) ==
    IF n = 0 THEN <<Zero, Zero>>
    ELSE Bind1(WeightedSum(es, n - 1), LAMBDA tw : AddEntry(tw, es[n]))

\* MU_GLOBAL if wtot <= 0 else total / wtot
MeanOrBaseline(tw) == IF Le(tw[2], Zero) THEN MU_GLOBAL ELSE Div(tw[1], tw[2])

\* the weighted mean of the entries es
Aggregate(es) == Bind1(WeightedSum(es, Len(es)), LAMBDA tw : MeanOrBaseline(tw))

\* calcular_winrate_vs(time_a, time_b) over the loaded table stats
calcular_winrate_vs(stats, time_a, time_b) ==
    Bind2(NormTeam(time_a), NormTeam(time_b), LAMBDA A, B :
        Bind1(SelectSeq(VsPairs(A, B),
                  LAMBDA k : ~Falsy(k[1]) /\ ~Falsy(k[2]) /\ k \in DOMAIN stats),
              LAMBDA found :
                Aggregate([n \in 1..Len(found) |-> stats[found[n]]] \o <<>>)))

\* the key calcular_winrate_with reads for the pair k: (a, b) if stored,
\* else (b, a)
WithKey(stats, k) == IF k \in DOMAIN stats THEN k ELSE <<k[2], k[1]>>

\* calcular_winrate_with(time) over the loaded table stats
calcular_winrate_with(stats, time) ==
    Bind1(NormTeam(time), LAMBDA champs :
        Bind1(SelectSeq(WithPairs(champs),
                  LAMBDA k : ~Falsy(k[1]) /\ ~Falsy(k[2])
                             /\ WithKey(stats, k) \in DOMAIN stats),
              LAMBDA found :
                Aggregate([n \in 1..Len(found) |-> stats[WithKey(stats, found[n])]] \o <<>>)))

\* lines 243-258: the two scores normalised to percentages
Normalise(score_azul, score_ver) ==
    Bind1(Add(score_azul, score_ver), LAMBDA soma :
        IF Le(soma, Zero) THEN <<Rat(50, 1), Rat(50, 1)>>
        ELSE <<Mul(Div(score_azul, soma), Hundred), Mul(Div(score_ver, soma), Hundred)>>)

\* a calcular_chance_vitoria that lost the parentheses of score_azul
calcular_chance_vitoria_noparen(vs, wt, time_azul, time_vermelho) ==
    Bind2(Add(calcular_winrate_vs(vs, time_azul, time_vermelho),
              Div(calcular_winrate_with(wt, time_azul), Two)),
          Div(Add(calcular_winrate_vs(vs, time_vermelho, time_azul),
                  calcular_winrate_with(wt, time_vermelho)), Two),
          Normalise)

\* calcular_chance_vitoria(time_azul, time_vermelho) over the loaded tables:
\* <<p_azul, p_vermelho>>
calcular_chance_vitoria(vs, wt, time_azul, time_vermelho) ==
    Bind2(Div(Add(calcular_winrate_vs(vs, time_azul, time_vermelho),
                  calcular_winrate_with(wt, time_azul)), Two),
          Div(Add(calcular_winrate_vs(vs, time_vermelho, time_azul),
                  calcular_winrate_with(wt, time_vermelho)), Two),
          Normalise)

RECURSIVE SumSeq(_, _)
\* sum(x) over the first n elements of x
SumSeq(x, n) == IF n = 0 THEN Zero ELSE Add(SumSeq(x, n - 1), x[n])

\* avg(x): float(sum(x) / len(x)) if x else 0.0
avg(x) == IF x = <<>> THEN Zero ELSE Div(SumSeq(x, Len(x)), Rat(Len(x), 1))

\* the games of the entries found for the keys ks
GamesOf(stats, ks) == [n \in 1..Len(ks) |-> stats[ks[n]][2]] \o <<>>

\* the report of diagnostico_draft from the keys found in the two tables
Report(vs, wt, found_vs, found_with) ==
    [vs_pairs_found |-> Len(found_vs), vs_pairs_total |-> 25,
     with_pairs_found |-> Len(found_with), with_pairs_total |-> 10,
     avg_games_vs |-> avg(GamesOf(vs, found_vs)),
     avg_games_with |-> avg(GamesOf(wt, found_with))]

\* diagnostico_draft(time_azul, time_vermelho) over the loaded tables
diagnostico_draft(vs, wt, time_azul, time_vermelho) ==
    Bind2(NormTeam(time_azul), NormTeam(time_vermelho), LAMBDA A, B :
        Bind2(SelectSeq(VsPairs(A, B), LAMBDA k : k \in DOMAIN vs),
              SelectSeq(WithPairs(A), LAMBDA k : WithKey(wt, k) \in DOMAIN wt),
              LAMBDA found_vs, found_with :
                Bind1([n \in 1..Len(found_with) |-> WithKey(wt, found_with[n])] \o <<>>,
                      LAMBDA keys_with : Report(vs, wt, found_vs, keys_with))))

-----
(* The inputs of the store's specification: champions, rows, sheets,        *)
(* workbooks, drafts and odds                                               *)

Vi == <<"V", "i">>
ViSpelled == <<" ", "V", ".", "i">>
Jax == <<"J", "a", "x">>
Zed == <<"Z", "e", "d">>
Lux == <<"L", "u", "x">>
Ahri == <<"A", "h", "r", "i">>
Shen == <<"S", "h", "e", "n">>
Ashe == <<"A", "s", "h", "e">>
Jinx == <<"J", "i", "n", "x">>
Sona == <<"S", "o", "n", "a">>
Olaf == <<"O", "l", "a", "f">>
Nami == <<"N", "a", "m", "i">>
Sett == <<"S", "e", "t", "t">>

\* rows <<campeao, champion, games, winrate>>
RowGood == <<Txt(Vi), Txt(Jax), Num(4, 1), Num(1, 2)>>
\* the same pair in another role, spelled differently, games as a numeric string
RowRole == <<Txt(ViSpelled), Txt(Jax), Txt(<<"1", "6">>), Num(3, 4)>>
\* the pair in the other direction
RowReverse == <<Txt(Jax), Txt(Vi), Num(16, 1), Num(1, 4)>>
\* a win-rate given as a whole-number percentage
RowPercent == <<Txt(Vi), Txt(Jax), Num(4, 1), Num(55, 1)>>
\* a win-rate given as "55%"
RowText == <<Txt(Vi), Txt(Jax), Num(4, 1), Txt(<<"5", "5", "%">>)>>
\* an empty games cell
RowBlank == <<Txt(Vi), Txt(Jax), Empty, Num(1, 2)>>
\* a base name that normalises to "" and a missing other name
RowNoName == <<Txt(<<"'">>), Empty, Num(4, 1), Num(1, 2)>>

Rows == {RowGood, RowRole, RowReverse, RowPercent, RowText, RowBlank, RowNoName}

RECURSIVE RowSeqs(_)
RowSeqs(n) ==
    IF n = 0 THEN {<<>>}
    ELSE LET shorter == RowSeqs(n - 1)
         IN  shorter \cup {Append(rs, r) : rs \in shorter, r \in Rows}

StdColumns == <<"campeao", "champion", "games", "winrate">>

Sheet(rows) == [columns |-> StdColumns, rows |-> rows]

Sheets == {Sheet(rs) : rs \in RowSeqs(MaxRows)}

\* the sheet every sheet is paired with in a workbook
AnchorSheets == {Sheet(<<RowGood>>)}

Book(vs, wt) == ("Winrate_vs" :> vs) @@ ("Winrate_with" :> wt)

\* other headers: resolved through the aliases, and a sheet with no win-rate
AliasSheet == [columns |-> <<"champion", "vs", "matches", "wr">>, rows |-> <<RowGood>>]
NoRateSheet == [columns |-> <<"campeao", "champion", "games", "role">>, rows |-> <<RowGood>>]

OddBooks ==
    {("Winrate_vs" :> Sheet(<<RowGood>>)),
     Book(AliasSheet, AliasSheet),
     Book(Sheet(<<RowReverse>>), NoRateSheet),
     Book(NoRateSheet, Sheet(<<RowReverse>>))}

Workbooks ==
    {Book(s, t) : s \in Sheets, t \in AnchorSheets}
      \cup {Book(s, t) : s \in AnchorSheets, t \in Sheets}
      \cup {Book(s, s) : s \in Sheets}
      \cup OddBooks

DefaultBook == Book(Sheet(<<RowGood, RowRole>>), Sheet(<<RowReverse>>))

TeamA1 == <<Vi, Jax, Zed, Lux, Ahri>>
TeamA2 == <<ViSpelled, Zed, Lux, Ahri, Shen>>
TeamB2 == <<Jax, Ashe, Jinx, Sona, Olaf>>
TeamC == <<Ashe, Jinx, Sona, Olaf, Nami>>
TeamD == <<Zed, Lux, Ahri, Shen, Sett>>

\* the matchups <<time_azul, time_vermelho>> scored
Drafts == {<<TeamA2, TeamB2>>, <<TeamB2, TeamA2>>, <<TeamA1, TeamC>>,
           <<TeamC, TeamA1>>, <<TeamD, TeamC>>}

\* a draft the form rejects: a team of two
ShortDraft == <<<<Vi, Jax>>, TeamC>>

\* the teams given to calcular_winrate_with
WithTeams == {TeamA1, TeamC}

\* parse_float's results for the two odd fields
FormOdds == {NoneNum, Rat(155, 100), Rat(230, 100)}

-----------------------------------------------------------------------------
(* The store and its operations: Spec *)

TEAM_SIZE == 5

Init ==
    /\ vs_stats = Unloaded
    /\ with_stats = Unloaded
    /\ default_xlsx \in {<<>>, <<DefaultBook>>}
    /\ pc = "idle"
    /\ op = "none"
    /\ args = <<>>
    /\ ret = <<>>

\* mega.init_from_excel(excel), as the upload handler calls it
InitFromExcel(excel) ==
    /\ pc = "idle"
    /\ \E r \in {init_from_excel(excel, vs_stats, with_stats)} :
           /\ vs_stats' = r.vs
           /\ with_stats' = r.wt
           /\ ret' = <<r.err>>
    /\ op' = "init_from_excel"
    /\ args' = <<excel>>
    /\ pc' = "done"
    /\ UNCHANGED default_xlsx

\* mega.calcular_winrate_with(time)
CalcularWinrateWith(time) ==
    /\ pc = "idle"
    /\ \E e \in {_ensure_loaded(vs_stats, with_stats, default_xlsx)} :
           /\ vs_stats' = e.vs
           /\ with_stats' = e.wt
           /\ ret' = IF e.err # "" THEN <<e.err>>
                     ELSE <<"", calcular_winrate_with(e.wt[1], time)>>
    /\ op' = "calcular_winrate_with"
    /\ args' = <<time>>
    /\ pc' = "done"
    /\ UNCHANGED default_xlsx

\* mega.calcular_chance_vitoria(time_azul, time_vermelho)
CalcularChanceVitoria(time_azul, time_vermelho) ==
    /\ pc = "idle"
    /\ \E e \in {_ensure_loaded(vs_stats, with_stats, default_xlsx)} :
           /\ vs_stats' = e.vs
           /\ with_stats' = e.wt
           /\ ret' = IF e.err # "" THEN <<e.err>>
                     ELSE <<"">> \o calcular_chance_vitoria(e.vs[1], e.wt[1],
                                                             time_azul, time_vermelho)
    /\ op' = "calcular_chance_vitoria"
    /\ args' = <<time_azul, time_vermelho>>
    /\ pc' = "done"
    /\ UNCHANGED default_xlsx

\* mega.calcular_winrate_vs(time_a, time_b)
CalcularWinrateVs(time_a, time_b) ==
    /\ pc = "idle"
    /\ \E e \in {_ensure_loaded(vs_stats, with_stats, default_xlsx)} :
           /\ vs_stats' = e.vs
           /\ with_stats' = e.wt
           /\ ret' = IF e.err # "" THEN <<e.err>>
                     ELSE <<"", calcular_winrate_vs(e.vs[1], time_a, time_b)>>
    /\ op' = "calcular_winrate_vs"
    /\ args' = <<time_a, time_b>>
    /\ pc' = "done"
    /\ UNCHANGED default_xlsx

\* mega.diagnostico_draft(time_azul, time_vermelho)
DiagnosticoDraft(time_azul, time_vermelho) ==
    /\ pc = "idle"
    /\ \E e \in {_ensure_loaded(vs_stats, with_stats, default_xlsx)} :
           /\ vs_stats' = e.vs
           /\ with_stats' = e.wt
           /\ ret' = IF e.err # "" THEN <<e.err>>
                     ELSE <<"", diagnostico_draft(e.vs[1], e.wt[1],
                                                  time_azul, time_vermelho)>>
    /\ op' = "diagnostico_draft"
    /\ args' = <<time_azul, time_vermelho>>
    /\ pc' = "done"
    /\ UNCHANGED default_xlsx

\* what the "Calcular" button's handler shows
Shown(status, p, gap_pp, lado, odd_escolhida, bet) ==
    [status |-> status, p_azul |-> p[1], p_vermelho |-> p[2], gap_pp |-> gap_pp,
     lado |-> lado, odd_escolhida |-> odd_escolhida,
     p_house |-> implied_prob_pct(odd_escolhida),
     entra |-> bet[1], motivo |-> bet[2]]

\* lines 161-179: the gap, the side, its odd and the verdict, from the model's p
Outcome(p0, odd_azul, odd_vermelho) ==
    Bind1(p0, LAMBDA p :
        Bind2(PyAbs(Sub(p[1], p[2])), pick_side(p[1], p[2]), LAMBDA gap_pp, lado :
            Bind1(get_odd_for_side(lado, odd_azul, odd_vermelho), LAMBDA odd_escolhida :
                Shown("ok", p, gap_pp, lado, odd_escolhida,
                      should_bet(odd_escolhida, gap_pp)))))

Stopped(status) ==
    [status |-> status, p_azul |-> NoneNum, p_vermelho |-> NoneNum, gap_pp |-> NoneNum,
     lado |-> "", odd_escolhida |-> NoneNum, p_house |-> NoneNum,
     entra |-> FALSE, motivo |-> ""]

\* the handler of the "Calcular" button, from the parsed form fields
Calcular(odd_azul, odd_vermelho, champs_azul, champs_vermelho) ==
    /\ pc = "idle"
    /\ IF IsNone(odd_azul) \/ IsNone(odd_vermelho)
       THEN /\ ret' = Stopped("Odd invalida")
            /\ UNCHANGED <<vs_stats, with_stats>>
       ELSE IF Len(champs_azul) # TEAM_SIZE \/ Len(champs_vermelho) # TEAM_SIZE
       THEN /\ ret' = Stopped("Cada time precisa ter exatamente 5 campeoes")
            /\ UNCHANGED <<vs_stats, with_stats>>
       ELSE \E e \in {_ensure_loaded(vs_stats, with_stats, default_xlsx)} :
                /\ vs_stats' = e.vs
                /\ with_stats' = e.wt
                /\ ret' = IF e.err # "" THEN Stopped("Erro no modelo/base")
                          ELSE Outcome(calcular_chance_vitoria(e.vs[1], e.wt[1],
                                           champs_azul, champs_vermelho),
                                       odd_azul, odd_vermelho)
    /\ op' = "calcular"
    /\ args' = <<odd_azul, odd_vermelho, champs_azul, champs_vermelho>>
    /\ pc' = "done"
    /\ UNCHANGED default_xlsx

\* the script has run to its end; the next event starts it again
Rerun ==
    /\ pc = "done"
    /\ pc' = "idle"
    /\ op' = "none"
    /\ args' = <<>>
    /\ ret' = <<>>
    /\ UNCHANGED <<vs_stats, with_stats, default_xlsx>>

Next ==
    \/ \E excel \in Workbooks : InitFromExcel(excel)
    \/ \E time \in WithTeams : CalcularWinrateWith(time)
    \/ \E d \in Drafts : CalcularWinrateVs(d[1], d[2])
    \/ \E d \in Drafts : CalcularChanceVitoria(d[1], d[2])
    \/ \E d \in Drafts : DiagnosticoDraft(d[1], d[2])
    \/ \E oa \in FormOdds, ov \in FormOdds, d \in Drafts \cup {ShortDraft} :
          Calcular(oa, ov, d[1], d[2])
    \/ Rerun

Spec == Init /\ [][Next]_vars

-----------------------------------------------------------------------------
(* should_bet as a pure function: SpecBet *)

BetOdds == {NoneNum, NaN} \cup {Rat(c, 100) : c \in 0..MaxOddCents}
BetGaps == {NaN} \cup {Rat(t, 10) : t \in 0..MaxGapTenths}

InitBet ==
    /\ vs_stats = Unloaded
    /\ with_stats = Unloaded
    /\ default_xlsx = <<>>
    /\ pc = "call"
    /\ op = "should_bet"
    /\ \E odd \in BetOdds, gap \in BetGaps : args = <<odd, gap>>
    /\ ret = <<>>

ShouldBetCall ==
    /\ pc = "call"
    /\ op = "should_bet"
    /\ ret' = should_bet(args[1], args[2])
    /\ pc' = "done"
    /\ UNCHANGED <<vs_stats, with_stats, default_xlsx, op, args>>

NextBet == ShouldBetCall

SpecBet == InitBet /\ [][NextBet]_vars

-----------------------------------------------------------------------------
(* norm_name as a pure function, applied twice: SpecNorm *)

Alphabet == {"K", "s", " ", "\t", "'", "."}

RECURSIVE StringsUpTo(_)
StringsUpTo(n) ==
    IF n = 0 THEN {<<>>}
    ELSE LET shorter == StringsUpTo(n - 1)
         IN  shorter \cup {Append(s, c) : s \in shorter, c \in Alphabet}

KSante == <<"K", "'", "S", "a", "n", "t", "e">>
ksante == <<"k", "s", "a", "n", "t", "e">>

NormInputs == StringsUpTo(MaxLen) \cup {None, KSante, ksante}

InitNorm ==
    /\ vs_stats = Unloaded
    /\ with_stats = Unloaded
    /\ default_xlsx = <<>>
    /\ pc = "call"
    /\ op = "norm_name"
    /\ \E x \in NormInputs : args = <<x>>
    /\ ret = <<>>

\* y = norm_name(x)
NormOnce ==
    /\ pc = "call"
    /\ op = "norm_name"
    /\ ret' = <<norm_name(args[1])>>
    /\ pc' = "once"
    /\ UNCHANGED <<vs_stats, with_stats, default_xlsx, op, args>>

\* z = norm_name(y)
NormTwice ==
    /\ pc = "once"
    /\ op = "norm_name"
    /\ ret' = Append(ret, norm_name(ret[1]))
    /\ pc' = "done"
    /\ UNCHANGED <<vs_stats, with_stats, default_xlsx, op, args>>

NextNorm == NormOnce \/ NormTwice

SpecNorm == InitNorm /\ [][NextNorm]_vars

-----------------------------------------------------------------------------
(* Claims about should_bet and norm_name *)

\* C1: should_bet enters exactly when the odd is present, above 1.0 and
\* Rule A (odd >= 2.00, gap >= 2.0) or Rule B (odd >= 1.70, gap >= 3.0)
\* holds; on entry the reason is Rule A's whenever Rule A holds, else Rule B's.
C1_EnterIffRuleAOrB ==
    (op = "should_bet" /\ pc = "done") =>
        LET odd == args[1]
            gap == args[2]
            ruleA == Ge(odd, Rat(2, 1)) /\ Ge(gap, Rat(2, 1))
            ruleB == Ge(odd, Rat(17, 10)) /\ Ge(gap, Rat(3, 1))
        IN  /\ ret[1] = (~IsNone(odd) /\ Gt(odd, Rat(1, 1)) /\ (ruleA \/ ruleB))
            /\ ret[1] => ret[2] = (IF ruleA THEN MsgRuleA ELSE MsgRuleB)

\* odd = 1.70, gap = 3.0 has entered by Rule B
C1_Witness ==
    /\ op = "should_bet" /\ pc = "done"
    /\ args = <<Rat(170, 100), Rat(30, 10)>>
    /\ ret = <<TRUE, MsgRuleB>>

\* C10: a rejection names the missed threshold: the invalid-odd reason iff
\* the odd is absent or <= 1.0 (whatever the gap); for a numeric odd and gap,
\* otherwise "odd < 1.70" iff odd < 1.70, otherwise the "gap < 3.0" reason iff
\* odd < 2.00, otherwise the "gap < 2.0" reason; never the generic reason.
C10_RejectionNamesThreshold ==
    (op = "should_bet" /\ pc = "done" /\ ~ret[1]) =>
        LET odd == args[1]
            gap == args[2]
            invalid == IsNone(odd) \/ Le(odd, Rat(1, 1))
        IN  /\ (ret[2] = MsgInvalid) <=> invalid
            /\ (~invalid /\ ~IsNaN(odd) /\ ~IsNaN(gap)) =>
                 /\ (ret[2] = MsgOddLow) <=> Lt(odd, Rat(17, 10))
                 /\ ~Lt(odd, Rat(17, 10)) =>
                      /\ (ret[2] = MsgGapB) <=> Lt(odd, Rat(2, 1))
                      /\ ~Lt(odd, Rat(2, 1)) => ret[2] = MsgGapA
                 /\ ret[2] # MsgOther

\* odd = 2.00 with gap = 1.9 has been rejected for its gap
C10_Witness ==
    /\ op = "should_bet" /\ pc = "done"
    /\ args = <<Rat(200, 100), Rat(19, 10)>>
    /\ ret = <<FALSE, MsgGapA>>

\* C4: norm_name(norm_name(x)) = norm_name(x) for every x, and
\* norm_name("K'Sante") = norm_name("ksante")
C4_NormNameIdempotent ==
    /\ norm_name(KSante) = norm_name(ksante)
    /\ (op = "norm_name" /\ pc = "done") => ret[2] = ret[1]

-----------------------------------------------------------------------------
(* Claims about the store: loads *)

\* C2: a failed init_from_excel leaves both tables exactly as they were
\* before the call, so the two tables always come from the same load.
C2_FailedLoadLeavesStore ==
    [][(op' = "init_from_excel" /\ ret'[1] # "")
          => (vs_stats' = vs_stats /\ with_stats' = with_stats)]_vars

\* a games or win-rate cell float() turns into a finite number
Parsable(c) == PyFloat(c).ok /\ IsNum(PyFloat(c).v)

\* row r of df with the unparsable cells of the columns c.g and c.wr as 0
ZeroedRow(df, c, r) ==
    [i \in 1..Len(r) |->
        IF df.columns[i] \in {c.g, c.wr} /\ ~Parsable(r[i]) THEN Num(0, 1) ELSE r[i]] \o <<>>

\* the table build_stats gives for df once its unparsable cells count as 0
ZeroedTable(df, c) ==
    build_stats([columns |-> df.columns,
                 rows |-> [n \in 1..Len(df.rows) |-> ZeroedRow(df, c, df.rows[n])] \o <<>>],
                c.a, c.b, c.g, c.wr).tab

\* both sheets are there and their four columns resolve
Readable(excel) ==
    /\ "Winrate_vs" \in DOMAIN excel /\ "Winrate_with" \in DOMAIN excel
    /\ ~Unresolved(Resolve(excel["Winrate_vs"], CandBVs))
    /\ ~Unresolved(Resolve(excel["Winrate_with"], CandBWith))

\* C3: a games or win-rate cell that is no number (text such as "55%", an
\* empty cell) does not fail the load, and the tables are those of the same
\* rows with the bad cell as 0.
C3_BadCellsCountAsZero ==
    (op = "init_from_excel" /\ Readable(args[1])) =>
        /\ ret[1] = ""
        /\ vs_stats = Some(ZeroedTable(args[1]["Winrate_vs"],
                                       Resolve(args[1]["Winrate_vs"], CandBVs)))
        /\ with_stats = Some(ZeroedTable(args[1]["Winrate_with"],
                                         Resolve(args[1]["Winrate_with"], CandBWith)))

\* every named row of df has a number of games and a win-rate that is a
\* fraction or a whole-number percentage
AcceptedForms(df, c) ==
    \A n \in 1..Len(df.rows) :
        /\ Parsable(At(df, df.rows[n], c.g))
        /\ Parsable(At(df, df.rows[n], c.wr))
        /\ Ge(PyFloat(At(df, df.rows[n], c.g)).v, Zero)
        /\ Ge(PyFloat(At(df, df.rows[n], c.wr)).v, Zero)
        /\ Le(PyFloat(At(df, df.rows[n], c.wr)).v, Hundred)

\* games >= 0 and wins <= games in every entry of the table
WinsWithinGames(stats) ==
    \A k \in DOMAIN stats : Ge(stats[k][2], Zero) /\ Le(stats[k][1], stats[k][2])

\* C6: after a load from rows whose win-rate is a fraction or a whole-number
\* percentage and whose games is a number, every entry of both tables has
\* games >= 0 and wins <= games.
C6_WinsAtMostGames ==
    (/\ op = "init_from_excel" /\ ret[1] = ""
     /\ AcceptedForms(args[1]["Winrate_vs"], Resolve(args[1]["Winrate_vs"], CandBVs))
     /\ AcceptedForms(args[1]["Winrate_with"], Resolve(args[1]["Winrate_with"], CandBWith)))
        => WinsWithinGames(vs_stats[1]) /\ WinsWithinGames(with_stats[1])

\* the rows of df, by index, whose two names normalise to the key k
RowsOfKey(df, c, k) ==
    {n \in 1..Len(df.rows) :
        <<CellName(At(df, df.rows[n], c.a)), CellName(At(df, df.rows[n], c.b))>> = k}

\* the keys of the rows of df that have both names
KeysOf(df, c) ==
    {<<CellName(At(df, df.rows[n], c.a)), CellName(At(df, df.rows[n], c.b))>> :
        n \in {m \in 1..Len(df.rows) :
                  /\ ~Falsy(CellName(At(df, df.rows[m], c.a)))
                  /\ ~Falsy(CellName(At(df, df.rows[m], c.b)))}}

RECURSIVE SumGames(_, _, _, _)
\* the sum of games over the rows of key k among the first n rows
SumGames(df, c, k, n) ==
    IF n = 0 THEN Zero
    ELSE IF n \in RowsOfKey(df, c, k)
    THEN Add(SumGames(df, c, k, n - 1), PyFloat(At(df, df.rows[n], c.g)).v)
    ELSE SumGames(df, c, k, n - 1)

RECURSIVE SumWins(_, _, _, _)
\* the sum of rate * games over the rows of key k among the first n rows
SumWins(df, c, k, n) ==
    IF n = 0 THEN Zero
    ELSE IF n \in RowsOfKey(df, c, k)
    THEN Add(SumWins(df, c, k, n - 1),
             Mul(PyFloat(At(df, df.rows[n], c.wr)).v, PyFloat(At(df, df.rows[n], c.g)).v))
    ELSE SumWins(df, c, k, n - 1)

\* stats holds, for the keys of the named rows of df and no other, the sums
\* of rate * games and of games over the rows of each key
SumsByKey(stats, df, c) ==
    /\ DOMAIN stats = KeysOf(df, c)
    /\ \A k \in KeysOf(df, c) :
          stats[k] = <<SumWins(df, c, k, Len(df.rows)), SumGames(df, c, k, Len(df.rows))>>

\* C9: after a successful load each key (a, b) of a table holds the sum of
\* games, and of rate * games, over all the rows whose names normalise to a
\* and b; a row with a missing or empty name contributes to no key.
C9_TablesSumRowsByKey ==
    (op = "init_from_excel" /\ ret[1] = "") =>
        /\ SumsByKey(vs_stats[1], args[1]["Winrate_vs"],
                     Resolve(args[1]["Winrate_vs"], CandBVs))
        /\ SumsByKey(with_stats[1], args[1]["Winrate_with"],
                     Resolve(args[1]["Winrate_with"], CandBWith))

\* "Vi"/"Jax" with 4 games at 0.5 and " V.i"/"Jax" with 16 games at 0.75 have
\* been loaded into the one entry (vi, jax) = (14 wins, 20 games)
C9_Witness ==
    /\ op = "init_from_excel" /\ ret[1] = ""
    /\ args[1] = Book(Sheet(<<RowGood, RowRole>>), Sheet(<<RowGood>>))
    /\ vs_stats = Some(<<norm_name(Vi), norm_name(Jax)>> :> <<Rat(14, 1), Rat(20, 1)>>)
    /\ with_stats = Some(<<norm_name(Vi), norm_name(Jax)>> :> <<Rat(2, 1), Rat(4, 1)>>)

-----------------------------------------------------------------------------
(* Claims about the store: scores and the "Calcular" flow *)

\* the reorderings of the members of a team of five
Perms ==
    {f \in [1..TEAM_SIZE -> 1..TEAM_SIZE] :
        \A i \in 1..TEAM_SIZE, j \in 1..TEAM_SIZE : f[i] = f[j] => i = j}

\* the team with its members in the order f
Reordered(time, f) == [i \in 1..Len(time) |-> time[f[i]]] \o <<>>

\* C5: over any loaded pairing table, also one that holds both (a, b) and
\* (b, a) with different wins and games, calcular_winrate_with returns the
\* same value for every reordering of the five members of the team (checked
\* over the tables whose entries are all finite numbers).
C5_WithOrderInvariant ==
    (/\ op = "calcular_winrate_with" /\ ret[1] = ""
     /\ \A k \in DOMAIN with_stats[1] : IsNum(with_stats[1][k][1]) /\ IsNum(with_stats[1][k][2]))
        =>
        \A f \in Perms :
            calcular_winrate_with(with_stats[1], Reordered(args[1], f)) = ret[2]

\* no member of time_a against a member of time_b has a head-to-head entry
\* in either direction, and no two members of one team have a pairing entry
\* in either order
NoEvidence(vs, wt, time_a, time_b) ==
    \E A \in {NormTeam(time_a)}, B \in {NormTeam(time_b)} :
        /\ \A i \in 1..Len(A), j \in 1..Len(B) :
              <<A[i], B[j]>> \notin DOMAIN vs /\ <<B[j], A[i]>> \notin DOMAIN vs
        /\ \A i \in 1..Len(A), j \in 1..Len(A) : i # j => <<A[i], A[j]>> \notin DOMAIN wt
        /\ \A i \in 1..Len(B), j \in 1..Len(B) : i # j => <<B[i], B[j]>> \notin DOMAIN wt

\* C7: for two teams with no head-to-head entry across them in either
\* direction and no pairing entry within either of them in either order,
\* calcular_chance_vitoria returns exactly (50.0, 50.0).
C7_NoEvidenceIsEven ==
    (/\ op = "calcular_chance_vitoria" /\ ret[1] = ""
     /\ NoEvidence(vs_stats[1], with_stats[1], args[1], args[2]))
        => ret[2] = Rat(50, 1) /\ ret[3] = Rat(50, 1)

\* over tables that do hold entries, two teams the tables know nothing
\* about have been scored 50.0 to 50.0
C7_Witness ==
    /\ op = "calcular_chance_vitoria" /\ ret = <<"", Rat(50, 1), Rat(50, 1)>>
    /\ args = <<TeamD, TeamC>>
    /\ DOMAIN vs_stats[1] # {} /\ DOMAIN with_stats[1] # {}
    /\ NoEvidence(vs_stats[1], with_stats[1], args[1], args[2])

\* C8: the side is Azul iff p_azul >= p_vermelho (a tie goes to Azul), else
\* Vermelho; the odd shown and given to should_bet in the "Calcular" flow is
\* the odd entered for that side.
C8_ChosenSideAndItsOdd ==
    (op = "calcular" /\ ret.status = "ok") =>
        /\ ret.lado \in {"AZUL", "VERMELHO"}
        /\ (ret.lado = "AZUL") <=> Ge(ret.p_azul, ret.p_vermelho)
        /\ ret.lado = pick_side(ret.p_azul, ret.p_vermelho)
        /\ ret.odd_escolhida = (IF ret.lado = "AZUL" THEN args[1] ELSE args[2])
        /\ <<ret.entra, ret.motivo>>
              = should_bet(IF ret.lado = "AZUL" THEN args[1] ELSE args[2], ret.gap_pp)

\* a tie at 50.0 with the odds 2.30 for Azul and 1.55 for Vermelho has gone
\* to Azul and its odd 2.30, and a draft that favours Vermelho to the odd
\* entered for Vermelho
C8_Witness ==
    /\ op = "calcular" /\ ret.status = "ok"
    /\ args[1] = Rat(230, 100) /\ args[2] = Rat(155, 100)
    /\ \/ /\ ret.p_azul = ret.p_vermelho
          /\ ret.lado = "AZUL" /\ ret.odd_escolhida = Rat(230, 100)
       \/ /\ Lt(ret.p_azul, ret.p_vermelho)
          /\ ret.lado = "VERMELHO" /\ ret.odd_escolhida = Rat(155, 100)

-----------------------------------------------------------------------------
(* Claims about the store: reads *)

\* the operations that read the store
ReadOps ==
    {"calcular_winrate_vs", "calcular_winrate_with", "calcular_chance_vitoria",
     "diagnostico_draft"}

\* C11: the store changes only through a load. Once both tables are loaded,
\* a calcular_winrate_vs, calcular_winrate_with, calcular_chance_vitoria or
\* diagnostico_draft call succeeds and leaves both tables as they were (no
\* reload from the default file); with the store unloaded and the default
\* file absent, the call fails with the not-found error and the store stays
\* unloaded; the tables change only in an init_from_excel call or in a read
\* that found the store not loaded and the default file present.
C11_ReadsLeaveStore ==
    [][/\ (op' \in ReadOps /\ vs_stats # Unloaded /\ with_stats # Unloaded)
            => (ret'[1] = "" /\ vs_stats' = vs_stats /\ with_stats' = with_stats)
       /\ (op' \in ReadOps /\ vs_stats = Unloaded /\ with_stats = Unloaded
             /\ default_xlsx = <<>>)
            => (/\ ret'[1] = "FileNotFoundError"
                /\ vs_stats' = Unloaded /\ with_stats' = Unloaded)
       /\ (vs_stats' # vs_stats \/ with_stats' # with_stats)
            => \/ op' = "init_from_excel"
               \/ /\ op' \in ReadOps \cup {"calcular"}
                  /\ vs_stats = Unloaded \/ with_stats = Unloaded
                  /\ default_xlsx # <<>>]_vars

\* diagnostico_draft has answered from tables that an upload loaded, with the
\* default file in place: the store is not what a reload from the default
\* file would have left
C11_Witness ==
    /\ op = "diagnostico_draft" /\ ret[1] = ""
    /\ default_xlsx = <<DefaultBook>>
    /\ vs_stats # Unloaded /\ with_stats # Unloaded
    /\ vs_stats # init_from_excel(DefaultBook, Unloaded, Unloaded).vs
    /\ with_stats # init_from_excel(DefaultBook, Unloaded, Unloaded).wt
    /\ ret[2].vs_pairs_found > 0

====
